---- MODULE Spec2Model ----
(***************************************************************************)
(* Clause segmentation of src/extract_clauses.py.                          *)
(*                                                                         *)
(* A text is a sequence of characters, a character is a one-character      *)
(* string (the full-width colon U+FF1A, which the module's lexer does not  *)
(* accept inside a string, is the string FWColon).  Line indices are the   *)
(* 0-based indices of the Python code; At(s, i) reads s[i].                *)
(* The regular expressions are translated to sets of match positions:     *)
(* a position p in 1..Len(s)+1 means "the next character to read is s[p]". *)
(***************************************************************************)
EXTENDS Naturals, Integers, Sequences, FiniteSets, TLC

\* ---------------------------------------------------------------- bounds

\* Longest document, in lines.
MaxLines == 3

\* ------------------------------------------------------------ characters

FWColon == "U+FF1A"

UpperSeq == <<"A","B","C","D","E","F","G","H","I","J","K","L","M",
              "N","O","P","Q","R","S","T","U","V","W","X","Y","Z">>
LowerSeq == <<"a","b","c","d","e","f","g","h","i","j","k","l","m",
              "n","o","p","q","r","s","t","u","v","w","x","y","z">>

Range(f) == {f[i] : i \in DOMAIN f}

UpperChars == Range(UpperSeq)
LowerChars == Range(LowerSeq)
DigitChars == {"0","1","2","3","4","5","6","7","8","9"}
\* \s, and what str.strip() / str.rstrip() / str.split() remove
SpaceChars == {" ", "\t", "\n"}
\* \w
WordChars  == UpperChars \cup LowerChars \cup DigitChars \cup {"_"}
RomanChars == {"I","V","X","L","C","D","M"}
ColonChars == {":", FWColon}

ToLower == [c \in UpperChars |-> LowerSeq[CHOOSE i \in 1..26 : UpperSeq[i] = c]]

\* re.IGNORECASE compares characters up to case
Fold(c) == IF c \in UpperChars THEN ToLower[c] ELSE c

\* -------------------------------------------------------------- sequences

\* s[i], 0-based
At(s, i) == s[i + 1]

\* s[a:b] for 0 <= a, 0 <= b
Slice(s, a, b) ==
  LET hi == IF b < Len(s) THEN b ELSE Len(s)
  IN  IF a >= hi THEN <<>> ELSE SubSeq(s, a + 1, hi)

\* str.lstrip(), str.rstrip(), str.strip()
RECURSIVE lstrip(_)
lstrip(s) ==
  IF s # <<>> /\ Head(s) \in SpaceChars THEN lstrip(Tail(s)) ELSE s

RECURSIVE rstrip(_)
rstrip(s) ==
  IF s # <<>> /\ s[Len(s)] \in SpaceChars
  THEN rstrip(SubSeq(s, 1, Len(s) - 1)) ELSE s

strip(s) == rstrip(lstrip(s))

\* "\n".join(ls)
RECURSIVE JoinNL(_)
JoinNL(ls) ==
  IF ls = <<>> THEN <<>>
  ELSE IF Len(ls) = 1 THEN ls[1]
  ELSE ls[1] \o <<"\n">> \o JoinNL(Tail(ls))

\* str.splitlines(): the lines between line breaks; a final line break
\* opens no further line.  "\n" is the only line break of the alphabet.
RECURSIVE SplitFrom(_, _)
SplitFrom(t, cur) ==
  IF t = <<>> THEN (IF cur = <<>> THEN <<>> ELSE <<cur>>)
  ELSE IF Head(t) = "\n" THEN <<cur>> \o SplitFrom(Tail(t), <<>>)
  ELSE SplitFrom(Tail(t), Append(cur, Head(t)))

splitlines(t) == SplitFrom(t, <<>>)

\* ------------------------------------------------------ regex combinators

\* the literal w read at p, letters compared up to case
LitAt(s, p, w) ==
  /\ p + Len(w) - 1 <= Len(s)
  /\ \A k \in 1..Len(w) : Fold(s[p + k - 1]) = Fold(w[k])

\* positions after the literal w, from the positions P
Lit(s, P, w) == {p + Len(w) : p \in {q \in P : LitAt(s, q, w)}}

\* positions after one character of class C
One(s, P, C) == {p + 1 : p \in {q \in P : q <= Len(s) /\ s[q] \in C}}

\* positions after zero or more characters of class C
Star(s, P, C) ==
  {q \in 1..(Len(s) + 1) :
     \E p \in P : p <= q /\ \A k \in p..(q - 1) : s[k] \in C}

\* positions after one or more characters of class C
Plus(s, P, C) == Star(s, One(s, P, C), C)

\* positions after at least n characters of class C
AtLeast(s, P, C, n) ==
  {q \in 1..(Len(s) + 1) :
     \E p \in P : p + n <= q /\ \A k \in p..(q - 1) : s[k] \in C}

\* "$": the end of a string that holds no line break
AtEnd(s, P) == (Len(s) + 1) \in P

\* "\b" at p: exactly one of s[p-1], s[p] is a word character
IsWordAt(s, p) == p >= 1 /\ p <= Len(s) /\ s[p] \in WordChars
Boundary(s, p) == IsWordAt(s, p - 1) # IsWordAt(s, p)

\* ------------------------------------------------------- pattern tables

CANONICAL_CLAUSE_NAMES ==
  << <<"d","e","f","i","n","i","t","i","o","n","s">>,
     <<"c","o","n","f","i","d","e","n","t","i","a","l","i","t","y">>,
     <<"c","o","n","f","i","d","e","n","t","i","a","l","i","t","y"," ","o","b","l","i","g","a","t","i","o","n","s">>,
     <<"p","e","r","m","i","t","t","e","d"," ","a","n","d"," ","r","e","s","t","r","i","c","t","e","d"," ","u","s","e","s">>,
     <<"p","e","r","m","i","t","t","e","d"," ","u","s","e","s">>,
     <<"r","e","s","t","r","i","c","t","e","d"," ","u","s","e","s">>,
     <<"t","e","r","m"," ","a","n","d"," ","t","e","r","m","i","n","a","t","i","o","n">>,
     <<"t","e","r","m">>,
     <<"t","e","r","m","i","n","a","t","i","o","n">>,
     <<"r","e","t","u","r","n"," ","o","r"," ","d","e","s","t","r","u","c","t","i","o","n"," ","o","f"," ","m","a","t","e","r","i","a","l","s">>,
     <<"r","e","t","u","r","n"," ","o","f"," ","m","a","t","e","r","i","a","l","s">>,
     <<"d","i","s","c","l","o","s","u","r","e","s"," ","r","e","q","u","i","r","e","d"," ","b","y"," ","l","a","w">>,
     <<"r","e","q","u","i","r","e","d"," ","b","y"," ","l","a","w">>,
     <<"o","w","n","e","r","s","h","i","p">>,
     <<"o","w","n","e","r","s","h","i","p",";"," ","n","o"," ","l","i","c","e","n","s","e">>,
     <<"n","o"," ","l","i","c","e","n","s","e">>,
     <<"i","n","d","e","m","n","i","f","i","c","a","t","i","o","n">>,
     <<"a","s","s","i","g","n","m","e","n","t">>,
     <<"n","o","t","i","c","e","s">>,
     <<"g","o","v","e","r","n","i","n","g"," ","l","a","w">>,
     <<"o","r","a","l"," ","a","g","r","e","e","m","e","n","t","s">>,
     <<"m","i","s","c","e","l","l","a","n","e","o","u","s">>,
     <<"s","e","v","e","r","a","b","i","l","i","t","y">>,
     <<"e","n","t","i","r","e"," ","a","g","r","e","e","m","e","n","t">>,
     <<"a","m","e","n","d","m","e","n","t">>,
     <<"w","a","i","v","e","r">>,
     <<"c","o","u","n","t","e","r","p","a","r","t","s">>,
     <<"r","e","m","e","d","i","e","s">>,
     <<"d","i","s","p","u","t","e"," ","r","e","s","o","l","u","t","i","o","n">>,
     <<"a","r","b","i","t","r","a","t","i","o","n">> >>

\* CANONICAL_CLAUSE_REGEX.search(s): some canonical name, read up to case
\* somewhere in s, with a word boundary on both sides
CANONICAL_CLAUSE_REGEX(s) ==
  \E p \in 1..(Len(s) + 1) :
    /\ Boundary(s, p)
    /\ \E n \in 1..Len(CANONICAL_CLAUSE_NAMES) :
         LET w == CANONICAL_CLAUSE_NAMES[n]
         IN  LitAt(s, p, w) /\ Boundary(s, p + Len(w))

\* the field labels of SIGNATURE_START_PATTERNS
SIGNATURE_FIELD_LABELS ==
  << <<"D","i","s","c","l","o","s","e","r">>,
     <<"R","e","c","i","p","i","e","n","t">>,
     <<"N","a","m","e">>,
     <<"T","i","t","l","e">>,
     <<"D","a","t","e">> >>

\* ^<label>[:U+FF1A]\s*[_\s]*$
FieldLabelPattern(s, w) ==
  AtEnd(s, Star(s, Star(s, One(s, Lit(s, {1}, w), ColonChars), SpaceChars),
                SpaceChars \cup {"_"}))

\* pat.match(s) for the n-th pattern of SIGNATURE_START_PATTERNS
SIGNATURE_START_PATTERNS(s, n) ==
  CASE n = 1 -> \* ^IN\s+WITNESS\s+WHEREOF
         Lit(s, Plus(s, Lit(s, Plus(s, Lit(s, {1}, <<"I","N">>), SpaceChars),
                            <<"W","I","T","N","E","S","S">>), SpaceChars),
             <<"W","H","E","R","E","O","F">>) # {}
    [] n = 2 -> \* ^SIGNED\s+this
         Lit(s, Plus(s, Lit(s, {1}, <<"S","I","G","N","E","D">>), SpaceChars),
             <<"t","h","i","s">>) # {}
    [] n = 3 -> \* ^Executed
         Lit(s, {1}, <<"E","x","e","c","u","t","e","d">>) # {}
    [] n = 4 -> \* ^Signed for and on behalf
         Lit(s, {1}, <<"S","i","g","n","e","d"," ","f","o","r"," ","a","n","d",
                       " ","o","n"," ","b","e","h","a","l","f">>) # {}
    [] n = 5 -> \* ^The parties (hereto|to this agreement)
         LET P == Lit(s, {1}, <<"T","h","e"," ","p","a","r","t","i","e","s"," ">>)
         IN  Lit(s, P, <<"h","e","r","e","t","o">>)
               \cup Lit(s, P, <<"t","o"," ","t","h","i","s"," ",
                                "a","g","r","e","e","m","e","n","t">>) # {}
    [] OTHER -> FieldLabelPattern(s, SIGNATURE_FIELD_LABELS[n - 5])

NumSignaturePatterns == 10

\* ------------------------------------------------------------ classifiers

\* a run of five or more underscores and nothing else: ^_{5,}$
UnderscoreRun(s) == AtEnd(s, AtLeast(s, {1}, {"_"}, 5))

\* ^\s*$
BlankLine(s) == AtEnd(s, Star(s, {1}, SpaceChars))

is_signature_line(line) ==
  LET stripped == strip(line)
  IN  \/ \E n \in 1..NumSignaturePatterns : SIGNATURE_START_PATTERNS(stripped, n)
      \/ UnderscoreRun(stripped)
      \/ BlankLine(stripped)

\* str.isupper(): some cased character, and no lower-case one
isupper(s) ==
  /\ \E k \in 1..Len(s) : s[k] \in UpperChars
  /\ \A k \in 1..Len(s) : s[k] \notin LowerChars

\* len(s.split()): the number of maximal runs of non-space characters
WordCount(s) ==
  Cardinality({k \in 1..Len(s) :
                 /\ s[k] \notin SpaceChars
                 /\ (k = 1 \/ s[k - 1] \in SpaceChars)})

\* ^[A-Z][A-Za-z\s\-/;]+:$
ColonHeading(s) ==
  AtEnd(s, Lit(s, Plus(s, One(s, {1}, UpperChars),
                       UpperChars \cup LowerChars \cup SpaceChars
                         \cup {"-", "/", ";"}),
               <<":">>))

is_flexible_heading(line) ==
  LET stripped == strip(line)
  IN  \/ (isupper(stripped) /\ 2 < Len(stripped) /\ Len(stripped) < 80
            /\ WordCount(stripped) < 10)
      \/ ColonHeading(stripped)
      \/ (CANONICAL_CLAUSE_REGEX(stripped) /\ Len(stripped) < 80)

\* ^(\d+|[IVXLCDM]+|[A-Z])\.\s*[\w\(\[]+
OrdinalPrefix(s) ==
  LET marker == Plus(s, {1}, DigitChars) \cup Plus(s, {1}, RomanChars)
                  \cup One(s, {1}, UpperChars)
  IN  Plus(s, Star(s, Lit(s, marker, <<".">>), SpaceChars),
           WordChars \cup {"(", "["}) # {}

\* ^\d+\.\d
SubLevelNumbering(s) ==
  One(s, Lit(s, Plus(s, {1}, DigitChars), <<".">>), DigitChars) # {}

is_numbered_heading(line) ==
  LET stripped == strip(line)
  IN  OrdinalPrefix(stripped) /\ ~SubLevelNumbering(stripped)

\* --------------------------------------------------------------- pipeline

\* the Heading Classifier: the test of find_heading_indices' first loop
IsHeadingLine(line) == is_numbered_heading(line) \/ is_flexible_heading(line)

\* find_heading_indices, first loop: (idx, line.strip()) of every heading
\* line from idx on
RECURSIVE HeadingCandidates(_, _)
HeadingCandidates(ls, idx) ==
  IF idx >= Len(ls) THEN <<>>
  ELSE (IF IsHeadingLine(At(ls, idx)) THEN << <<idx, strip(At(ls, idx))>> >>
        ELSE <<>>)
       \o HeadingCandidates(ls, idx + 1)

\* a slip: a candidate is kept only when a line lies between it and the
\* candidate before
KeepCandidate_Gap(idx, last_idx) == idx - last_idx > 1

\* the test that keeps a candidate, given the index of the candidate before
KeepCandidate(idx, last_idx) == idx - last_idx > 0

\* find_heading_indices, second loop
RECURSIVE Deduplicate(_, _)
Deduplicate(hs, last_idx) ==
  IF hs = <<>> THEN <<>>
  ELSE (IF KeepCandidate(Head(hs)[1], last_idx) THEN <<Head(hs)>> ELSE <<>>)
       \o Deduplicate(Tail(hs), Head(hs)[1])

find_heading_indices(ls) == Deduplicate(HeadingCandidates(ls, 0), -10)

\* every position of s
Anywhere(s) == 1..(Len(s) + 1)

NumPreamblePatterns == 4

\* pat.search(block) for the n-th pattern of preamble_patterns
preamble_patterns(block, n) ==
  CASE n = 1 -> \* non-?disclosure agreement
         LET P == Lit(block, Anywhere(block), <<"n","o","n">>)
         IN  Lit(block, P \cup Lit(block, P, <<"-">>),
                 <<"d","i","s","c","l","o","s","u","r","e"," ",
                   "a","g","r","e","e","m","e","n","t">>) # {}
    [] n = 2 -> \* this agreement (is|shall|constitutes|made|entered into)
         LET P == Lit(block, Anywhere(block),
                      <<"t","h","i","s"," ","a","g","r","e","e","m","e","n","t"," ">>)
         IN  Lit(block, P, <<"i","s">>)
               \cup Lit(block, P, <<"s","h","a","l","l">>)
               \cup Lit(block, P, <<"c","o","n","s","t","i","t","u","t","e","s">>)
               \cup Lit(block, P, <<"m","a","d","e">>)
               \cup Lit(block, P, <<"e","n","t","e","r","e","d"," ","i","n","t","o">>)
               # {}
    [] n = 3 -> \* effective date
         Lit(block, Anywhere(block),
             <<"e","f","f","e","c","t","i","v","e"," ","d","a","t","e">>) # {}
    [] OTHER -> \* by and between
         Lit(block, Anywhere(block),
             <<"b","y"," ","a","n","d"," ","b","e","t","w","e","e","n">>) # {}

\* some pattern of preamble_patterns is found in block
IsPreamble(block) ==
  \E n \in 1..NumPreamblePatterns : preamble_patterns(block, n)

\* a slip: the loop over preamble_patterns lacks its break, and drops one
\* heading for every pattern found
RECURSIVE DropPerPattern(_, _, _)
DropPerPattern(block, hs, n) ==
  IF n > NumPreamblePatterns THEN hs
  ELSE DropPerPattern(block,
                      IF preamble_patterns(block, n)
                      THEN Slice(hs, 1, Len(hs)) ELSE hs,
                      n + 1)

remove_preamble_headings_NoBreak(ls, heading_indices) ==
  IF heading_indices # <<>>
  THEN DropPerPattern(JoinNL(Slice(ls, 0, heading_indices[1][1] + 1)),
                      heading_indices, 1)
  ELSE heading_indices

remove_preamble_headings(ls, heading_indices) ==
  IF heading_indices # <<>>
  THEN LET idx   == heading_indices[1][1]
           block == JoinNL(Slice(ls, 0, idx + 1))
       IN  IF IsPreamble(block) THEN Tail(heading_indices)
           ELSE heading_indices
  ELSE heading_indices

\* Python's None, where an index is expected
None == -1

find_signature_block_start(ls, start_line) ==
  LET hits == {idx \in start_line..(Len(ls) - 1) : is_signature_line(At(ls, idx))}
  IN  IF hits = {} THEN None
      ELSE CHOOSE idx \in hits : \A other \in hits : idx <= other

\* a slip: the signature scan of the last heading starts at the heading line
RangeEnd_ScanFromHeading(ls, hs, i) ==
  IF i + 1 < Len(hs) THEN At(hs, i + 1)[1]
  ELSE LET sig_start == find_signature_block_start(ls, At(hs, i)[1])
       IN  IF sig_start # None THEN sig_start ELSE Len(ls)

\* a slip: without a signature block the last range ends at the last index
RangeEnd_LastIndex(ls, hs, i) ==
  IF i + 1 < Len(hs) THEN At(hs, i + 1)[1]
  ELSE LET sig_start == find_signature_block_start(ls, At(hs, i)[1] + 1)
       IN  IF sig_start # None THEN sig_start ELSE Len(ls) - 1

\* a slip: the signature scan bounds every range, not only the last
RangeEnd_ScanEveryHeading(ls, hs, i) ==
  LET limit     == IF i + 1 < Len(hs) THEN At(hs, i + 1)[1] ELSE Len(ls)
      sig_start == find_signature_block_start(Slice(ls, 0, limit),
                                              At(hs, i)[1] + 1)
  IN  IF sig_start # None THEN sig_start ELSE limit

\* the end of the range of headings[i] (i counts from 0)
RangeEnd(ls, hs, i) ==
  IF i + 1 < Len(hs) THEN At(hs, i + 1)[1]
  ELSE LET sig_start == find_signature_block_start(ls, At(hs, i)[1] + 1)
       IN  IF sig_start # None THEN sig_start ELSE Len(ls)

\* a slip: the loop over headings stops one heading short
BuildRanges_SkipLast(ls, hs) ==
  [k \in 1..(Len(hs) - 1) |-> <<hs[k][1], RangeEnd(ls, hs, k - 1), hs[k][2]>>]

\* extract_clauses, first loop: (start, end, heading) per heading
BuildRanges(ls, hs) ==
  [k \in 1..Len(hs) |-> <<hs[k][1], RangeEnd(ls, hs, k - 1), hs[k][2]>>]

\* a slip: the pattern is ":+$", and the full-width colon stays
RECURSIVE StripTrailingColons_AsciiOnly(_)
StripTrailingColons_AsciiOnly(s) ==
  IF s # <<>> /\ s[Len(s)] = ":"
  THEN StripTrailingColons_AsciiOnly(SubSeq(s, 1, Len(s) - 1)) ELSE s

\* re.sub(r"[:U+FF1A]+$", "", s)
RECURSIVE StripTrailingColons(_)
StripTrailingColons(s) ==
  IF s # <<>> /\ s[Len(s)] \in ColonChars
  THEN StripTrailingColons(SubSeq(s, 1, Len(s) - 1)) ELSE s

\* a slip: the heading line is not cut off the block
ContentLines_WithHeading(block_lines) == block_lines

\* block_lines[1:] if len(block_lines) > 1 else []
ContentLines(block_lines) ==
  IF Len(block_lines) > 1 THEN Slice(block_lines, 1, Len(block_lines))
  ELSE <<>>

\* "\n".join([l.rstrip() for l in content_lines]).strip()
PrimaryContent(content_lines) ==
  strip(JoinNL([k \in 1..Len(content_lines) |-> rstrip(content_lines[k])]))

\* a slip: the fallback joins the whole block, heading line included
FallbackContent_WithHeading(block_lines) == strip(JoinNL(block_lines))

\* "\n".join(block_lines[1:]).strip()
FallbackContent(block_lines) ==
  strip(JoinNL(Slice(block_lines, 1, Len(block_lines))))

\* a slip: "or" for "and" in the test of the fallback, which is then taken
\* for every range with body lines
AssembleClause_FallbackOr(ls, r) ==
  LET block_lines    == Slice(ls, r[1], r[2])
      content_lines  == ContentLines(block_lines)
      primary        == PrimaryContent(content_lines)
      clause_content == IF primary = <<>> \/ Len(block_lines) > 1
                        THEN FallbackContent(block_lines) ELSE primary
  IN  [clause_name |-> StripTrailingColons(strip(r[3])),
       clause_content |-> clause_content]

\* extract_clauses, second loop body: the clause of one range
AssembleClause(ls, r) ==
  LET block_lines    == Slice(ls, r[1], r[2])
      content_lines  == ContentLines(block_lines)
      primary        == PrimaryContent(content_lines)
      clause_content == IF primary = <<>> /\ Len(block_lines) > 1
                        THEN FallbackContent(block_lines) ELSE primary
  IN  [clause_name |-> StripTrailingColons(strip(r[3])),
       clause_content |-> clause_content]

\* ----------------------------------------------------------------- inputs

\* The lines documents are made of:
\*   ''                 a blank line
\*   '1. Scope'         an ordinal-prefixed heading, not flexible
\*   '2. Fees'          another one
\*   '3. TERM'          a heading by both predicates
\*   '1.2 TERM'         sub-level numbering, upper case, canonical name
\*   'body '            plain body text with trailing white space
\*   'Name:'            a signature field label
\*   'Notices:'         a colon heading
\*   'By and between'   a recital line, no heading
\*   'EFFECTIVE DATE'   an upper-case line naming a front-matter signature
\*   'Executed'         a boilerplate opener, no heading
\*   '_____'            a signature rule
\*   'TERM:' + U+FF1A   an upper-case heading ending in two kinds of colon
\*   ' \t'              a white-space-only line
LineVocabulary ==
  << <<>>,
     <<"1","."," ","S","c","o","p","e">>,
     <<"2","."," ","F","e","e","s">>,
     <<"3","."," ","T","E","R","M">>,
     <<"1",".","2"," ","T","E","R","M">>,
     <<"b","o","d","y"," ">>,
     <<"N","a","m","e",":">>,
     <<"N","o","t","i","c","e","s",":">>,
     <<"T","E","R","M",":",FWColon>>,
     <<"B","y"," ","a","n","d"," ","b","e","t","w","e","e","n">>,
     <<"E","F","F","E","C","T","I","V","E"," ","D","A","T","E">>,
     <<"E","x","e","c","u","t","e","d">>,
     <<"_","_","_","_","_">>,
     <<" ","\t">> >>

RECURSIVE DocumentsOfLength(_)
DocumentsOfLength(n) ==
  IF n = 0 THEN {<<>>}
  ELSE {Append(d, LineVocabulary[v]) :
          d \in DocumentsOfLength(n - 1), v \in 1..Len(LineVocabulary)}

Documents == UNION {DocumentsOfLength(n) : n \in 0..MaxLines}

\* the texts handed to extract_clauses
Texts == {JoinNL(d) : d \in Documents}

\* ------------------------------------------------------------------ state

VARIABLES
  text,           \* the argument of extract_clauses
  lines,          \* text.splitlines()
  classified,     \* what find_heading_indices returned
  headings,       \* the local variable headings
  clause_ranges,  \* the local variable clause_ranges
  clauses,        \* the returned list
  pc              \* where the call stands

vars == <<text, lines, classified, headings, clause_ranges, clauses, pc>>

Init ==
  /\ text \in Texts
  /\ lines = <<>>
  /\ classified = <<>>
  /\ headings = <<>>
  /\ clause_ranges = <<>>
  /\ clauses = <<>>
  /\ pc = "split"

\* lines = text.splitlines()
SplitLines ==
  /\ pc = "split"
  /\ lines' = splitlines(text)
  /\ pc' = "find"
  /\ UNCHANGED <<text, classified, headings, clause_ranges, clauses>>

\* headings = find_heading_indices(lines)
FindHeadings ==
  /\ pc = "find"
  /\ headings' = find_heading_indices(lines)
  /\ classified' = headings'
  /\ pc' = "preamble"
  /\ UNCHANGED <<text, lines, clause_ranges, clauses>>

\* headings = remove_preamble_headings(lines, headings)
RemovePreamble ==
  /\ pc = "preamble"
  /\ headings' = remove_preamble_headings(lines, headings)
  /\ pc' = "ranges"
  /\ UNCHANGED <<text, lines, classified, clause_ranges, clauses>>

\* a slip: the early return is missing, and the call goes on to the ranges
ReturnEmpty_FallsThrough ==
  /\ pc = "ranges"
  /\ headings = <<>>
  /\ clause_ranges' = BuildRanges(lines, headings)
  /\ pc' = "assemble"
  /\ UNCHANGED <<text, lines, classified, headings, clauses>>

\* if not headings: return []
ReturnEmpty ==
  /\ pc = "ranges"
  /\ headings = <<>>
  /\ clauses' = <<>>
  /\ pc' = "done"
  /\ UNCHANGED <<text, lines, classified, headings, clause_ranges>>

\* the loop that fills clause_ranges
BuildClauseRanges ==
  /\ pc = "ranges"
  /\ headings # <<>>
  /\ clause_ranges' = BuildRanges(lines, headings)
  /\ pc' = "assemble"
  /\ UNCHANGED <<text, lines, classified, headings, clauses>>

\* the loop that fills clauses, and the return
AssembleClauses ==
  /\ pc = "assemble"
  /\ clauses' = [k \in 1..Len(clause_ranges) |->
                   AssembleClause(lines, clause_ranges[k])]
  /\ pc' = "done"
  /\ UNCHANGED <<text, lines, classified, headings, clause_ranges>>

Next ==
  \/ SplitLines
  \/ FindHeadings
  \/ RemovePreamble
  \/ ReturnEmpty
  \/ BuildClauseRanges
  \/ AssembleClauses

Spec == Init /\ [][Next]_vars

TypeOK ==
  /\ pc \in {"split", "find", "preamble", "ranges", "assemble", "done"}
  /\ Len(headings) <= Len(lines)

\* ------------------------------------------------ notions the claims use

\* the 0-based indices of the lines of ls
LineIndices(ls) == 0..(Len(ls) - 1)

\* the line indices of a heading list
IndexSet(hs) == {hs[k][1] : k \in 1..Len(hs)}

\* find_heading_indices has returned
Classified == pc \in {"preamble", "ranges", "assemble", "done"}

\* remove_preamble_headings has returned
Filtered == pc \in {"ranges", "assemble", "done"}

\* clause_ranges is built
Ranged == pc \in {"assemble", "done"}

\* extract_clauses has returned a non-empty list
Returned == pc = "done" /\ headings # <<>>

\* the Preamble Filter dropped a heading
PreambleFired == Filtered /\ Len(headings) < Len(classified)

\* a closing-block trigger other than a blank line: a boilerplate opener,
\* a signature field label or a run of underscores
NonBlankTrigger(line) ==
  is_signature_line(line) /\ ~BlankLine(strip(line))

\* the indices of the body lines of a range: after its heading, before its end
BodyIndices(r) == (r[1] + 1)..(r[2] - 1)

\* the body lines of a range, in order
BodyLines(ls, r) == [k \in 1..(r[2] - r[1] - 1) |-> At(ls, r[1] + k)]

\* the body as the Clause Assembler states it: each line right-trimmed,
\* joined with line breaks, trimmed
BodyText(ls, r) ==
  strip(JoinNL([k \in 1..(r[2] - r[1] - 1) |-> rstrip(At(ls, r[1] + k))]))

\* w occurs in s as a run of consecutive characters
Occurs(w, s) ==
  \E p \in 1..(Len(s) + 1) :
    p + Len(w) - 1 <= Len(s) /\ \A k \in 1..Len(w) : s[p + k - 1] = w[k]

\* ----------------------------------------------------------------- claims

\* C1: find_heading_indices collapses each run of heading lines at
\* consecutive line indices into one heading, the first line of the run: the
\* headings it returns are exactly the heading lines whose preceding line is
\* no heading line.
C1_AdjacentHeadingsCollapsed ==
  Classified =>
    IndexSet(classified) =
      {i \in LineIndices(lines) :
         /\ IsHeadingLine(At(lines, i))
         /\ (i = 0 \/ ~IsHeadingLine(At(lines, i - 1)))}

\* the precondition of C2: no line satisfies the flexible predicate, so
\* every heading line is an ordinal-prefixed one
OnlyNumberedHeadings ==
  \A i \in LineIndices(lines) : ~is_flexible_heading(At(lines, i))

NumberedLines == {i \in LineIndices(lines) : is_numbered_heading(At(lines, i))}

\* C2 as claimed: with only ordinal-prefixed headings, the number of clauses
\* returned equals the number of heading lines.
C2_ClauseCountEqualsHeadingLines ==
  (pc = "done" /\ OnlyNumberedHeadings) =>
    Len(clauses) = Cardinality(NumberedLines)

\* the text from line 0 through the first heading line matches a
\* front-matter signature
FirstHeadingInFrontMatter ==
  /\ NumberedLines # {}
  /\ LET first == CHOOSE i \in NumberedLines : \A j \in NumberedLines : i <= j
     IN  IsPreamble(JoinNL(Slice(lines, 0, first + 1)))

\* C2 as amended: with only ordinal-prefixed headings, the number of clauses
\* returned equals the number of heading lines, less one when the text from
\* line 0 through the first heading line matches a front-matter signature.
C2_ClauseCountLessPreamble ==
  (pc = "done" /\ OnlyNumberedHeadings) =>
    Len(clauses) = Cardinality(NumberedLines)
                     - (IF FirstHeadingInFrontMatter THEN 1 ELSE 0)

\* C2's case: several ordinal-prefixed headings, the first one dropped as
\* front matter, the others returned
C2_Witness ==
  /\ pc = "done"
  /\ OnlyNumberedHeadings
  /\ FirstHeadingInFrontMatter
  /\ Cardinality(NumberedLines) >= 2
  /\ Len(clauses) >= 1

\* C3: a line matching a non-blank closing-block trigger is never the heading
\* line of an output clause, and neither it nor any line after it is in the
\* body of any output clause.
C3_SignatureBlockExcluded ==
  Returned =>
    \A i \in LineIndices(lines) :
      NonBlankTrigger(At(lines, i)) =>
        \A k \in 1..Len(clause_ranges) :
          /\ clause_ranges[k][1] # i
          /\ \A j \in BodyIndices(clause_ranges[k]) : j < i

\* no line after the last heading matches a non-blank trigger
NoTrailerAfterLastHeading ==
  \A j \in LineIndices(lines) :
    j > headings[Len(headings)][1] => ~NonBlankTrigger(At(lines, j))

\* no line after the last heading matches any trigger, blank lines included
NoTriggerAfterLastHeading ==
  \A j \in LineIndices(lines) :
    j > headings[Len(headings)][1] => ~is_signature_line(At(lines, j))

\* C4 as claimed: with no boilerplate opener, field label or underscore run
\* after the last heading, the final range ends at the document length.
C4_FinalClauseRunsToEnd ==
  (Returned /\ NoTrailerAfterLastHeading) =>
    clause_ranges[Len(clause_ranges)][2] = Len(lines)

\* C4 as amended: with no closing-block trigger after the last heading, a
\* blank or white-space-only line being one, the final range ends at the
\* document length and the final clause's content runs through the last line.
C4_FinalClauseRunsToEndNoBlank ==
  (Returned /\ NoTriggerAfterLastHeading) =>
    LET last == clause_ranges[Len(clause_ranges)]
    IN  /\ last[2] = Len(lines)
        /\ clauses[Len(clauses)].clause_content =
             strip(JoinNL([k \in 1..(Len(lines) - last[1] - 1) |->
                             rstrip(At(lines, last[1] + k))]))

\* C4's case: a final clause with a body of two lines and no trigger
C4_Witness ==
  /\ Returned
  /\ NoTriggerAfterLastHeading
  /\ Len(lines) >= headings[Len(headings)][1] + 3
  /\ clauses[Len(clauses)].clause_content # <<>>

\* C5: a line whose trimmed text begins with sub-level numbering is never
\* classified as a heading.
C5_SubLevelNeverHeading ==
  Classified =>
    \A i \in LineIndices(lines) :
      SubLevelNumbering(strip(At(lines, i))) => i \notin IndexSet(classified)

\* C6: remove_preamble_headings returns the heading list unchanged or with
\* exactly its first element removed; it removes the first heading exactly
\* when the text from line 0 through that heading's line matches a
\* front-matter signature, and leaves every later heading as it was.
C6_PreambleFilterOnlyFirst ==
  Filtered =>
    LET fires == /\ classified # <<>>
                 /\ IsPreamble(JoinNL(Slice(lines, 0, classified[1][1] + 1)))
    IN  headings = IF fires THEN Tail(classified) ELSE classified

\* C6's case: the first heading stays, and a later heading stays although
\* the text before it matches a front-matter signature
C6_Witness ==
  /\ Filtered
  /\ Len(classified) >= 2
  /\ headings = classified
  /\ IsPreamble(JoinNL(Slice(lines, 0, classified[2][1] + 1)))

\* C7: whenever the Preamble Filter drops the first heading, the heading line
\* of the first clause returned matches no front-matter signature.
C7_FirstClauseNotFrontMatter ==
  (Returned /\ PreambleFired) =>
    ~IsPreamble(At(lines, clause_ranges[1][1]))

\* C8: the headings are strictly increasing by line index, every range has
\* start < end <= number of lines, the end of each range is the start of the
\* next, and the clauses returned are the clauses of the ranges, one per
\* range, in the order of the document.
C8_RangesContiguous ==
  /\ Classified =>
       \A k \in 1..(Len(classified) - 1) : classified[k][1] < classified[k + 1][1]
  /\ Filtered =>
       \A k \in 1..(Len(headings) - 1) : headings[k][1] < headings[k + 1][1]
  /\ Ranged =>
       /\ Len(clause_ranges) = Len(headings)
       /\ \A k \in 1..Len(clause_ranges) :
            /\ clause_ranges[k][1] = headings[k][1]
            /\ clause_ranges[k][3] = headings[k][2]
            /\ clause_ranges[k][1] < clause_ranges[k][2]
            /\ clause_ranges[k][2] <= Len(lines)
       /\ \A k \in 1..(Len(clause_ranges) - 1) :
            clause_ranges[k][2] = clause_ranges[k + 1][1]
  /\ Returned =>
       /\ Len(clauses) = Len(clause_ranges)
       /\ \A k \in 1..Len(clauses) :
            clauses[k].clause_name
              = StripTrailingColons(strip(At(lines, clause_ranges[k][1])))

\* C8's case: two clauses returned, the first under a heading line that
\* satisfies both predicates
C8_Witness ==
  /\ Returned
  /\ Len(clauses) >= 2
  /\ is_numbered_heading(At(lines, clause_ranges[1][1]))
  /\ is_flexible_heading(At(lines, clause_ranges[1][1]))
  /\ clauses[1].clause_name # clauses[2].clause_name

\* C9: the content of every clause returned is built from the lines whose
\* index is strictly greater than the clause's heading line index and
\* strictly less than its range end, and from no others: not from the
\* heading line, not from a line of another clause's range.
C9_ContentFromOwnBody ==
  Returned =>
    \A k \in 1..Len(clauses) :
      /\ clauses[k].clause_content = BodyText(lines, clause_ranges[k])
      /\ \A j \in 1..Len(clause_ranges) :
           j # k =>
             BodyIndices(clause_ranges[k])
               \cap (clause_ranges[j][1]..(clause_ranges[j][2] - 1)) = {}

\* C9's case: two clauses, one of them with a body that does not hold its
\* heading
C9_Witness ==
  /\ Returned
  /\ Len(clauses) >= 2
  /\ \E k \in 1..Len(clauses) :
       /\ clauses[k].clause_content # <<>>
       /\ ~Occurs(clause_ranges[k][3], clauses[k].clause_content)

\* the body of a range, rejoined and trimmed, is empty
EmptyBody(r) == BodyText(lines, r) = <<>>

\* C10 as claimed: when the body of a clause would otherwise be empty, its
\* content holds the heading line.
C10_EmptyBodyFallsBackToHeading ==
  Returned =>
    \A k \in 1..Len(clauses) :
      EmptyBody(clause_ranges[k]) =>
        Occurs(clause_ranges[k][3], clauses[k].clause_content)

\* C10 as amended: when the body of a clause would otherwise be empty, its
\* content is the empty string; the heading line is not put in its place.
C10_EmptyBodyStaysEmpty ==
  Returned =>
    \A k \in 1..Len(clauses) :
      EmptyBody(clause_ranges[k]) => clauses[k].clause_content = <<>>

\* C10's case: a range that holds white-space-only lines after its heading,
\* so that the fallback is taken
C10_Witness ==
  /\ Returned
  /\ \E k \in 1..Len(clauses) :
       /\ clause_ranges[k][2] - clause_ranges[k][1] > 1
       /\ EmptyBody(clause_ranges[k])
       /\ clauses[k].clause_content = <<>>

\* C11: whenever no heading survives, no line being classified or the only
\* classified heading being dropped by the Preamble Filter, extract_clauses
\* returns the empty list: the call goes from the filter to its return, and
\* builds no clause range on the way.
C11_NoHeadingsReturnsEmpty ==
  (Filtered /\ headings = <<>>) =>
    /\ pc \in {"ranges", "done"}
    /\ pc = "ranges" => ENABLED ReturnEmpty
    /\ clause_ranges = <<>>
    /\ clauses = <<>>

\* C11's case: the only classified heading was dropped, and the call has
\* returned
C11_Witness ==
  /\ pc = "done"
  /\ Len(classified) = 1
  /\ headings = <<>>
  /\ clauses = <<>>

\* the trimmed text of the heading line of a range
HeadingText(r) == strip(At(lines, r[1]))

\* name is h without its trailing colons: a prefix of h that ends in no
\* colon, the rest of h being colons only
WithoutTrailingColons(name, h) ==
  \E n \in 0..Len(h) :
    /\ name = SubSeq(h, 1, n)
    /\ \A k \in (n + 1)..Len(h) : h[k] \in ColonChars
    /\ (n = 0 \/ h[n] \notin ColonChars)

\* C12: the name of every clause returned is the trimmed heading text with
\* every trailing colon, ASCII or full-width, removed and nothing else
\* changed; a heading that ends in no colon is its own name, and stripping
\* the colons of a name again changes nothing.
C12_NameIsHeadingWithoutColons ==
  Returned =>
    \A k \in 1..Len(clauses) :
      LET h    == HeadingText(clause_ranges[k])
          name == clauses[k].clause_name
      IN  /\ WithoutTrailingColons(name, h)
          /\ (h[Len(h)] \notin ColonChars => name = h)
          /\ StripTrailingColons(name) = name

\* C12's case: a heading that ends in an ASCII and a full-width colon loses
\* both, and a heading without a colon keeps its text
C12_Witness ==
  /\ Returned
  /\ \E k \in 1..Len(clauses) :
       LET h == HeadingText(clause_ranges[k])
       IN  /\ Len(h) > 2
           /\ h[Len(h)] = FWColon
           /\ h[Len(h) - 1] = ":"
           /\ clauses[k].clause_name = SubSeq(h, 1, Len(h) - 2)
  /\ \E k \in 1..Len(clauses) :
       LET h == HeadingText(clause_ranges[k])
       IN  h[Len(h)] \notin ColonChars /\ clauses[k].clause_name = h

\* the trigger lines after the heading line h
TriggersAfter(h) ==
  {i \in LineIndices(lines) : i >= h + 1 /\ is_signature_line(At(lines, i))}

\* C14: the range of the last surviving heading, at line h, ends at the
\* smallest index i >= h + 1 whose line matches a closing-block trigger (a
\* blank line being one), or at the number of lines when there is none; the
\* range of every earlier heading ends at the next surviving heading's line
\* index, whatever trigger lines lie between the two.
C14_RangeEnds ==
  (Ranged /\ headings # <<>>) =>
    /\ Len(clause_ranges) = Len(headings)
    /\ \A k \in 1..(Len(headings) - 1) :
         clause_ranges[k][2] = headings[k + 1][1]
    /\ LET n    == Len(headings)
           hits == TriggersAfter(headings[n][1])
       IN  /\ (hits = {} => clause_ranges[n][2] = Len(lines))
           /\ (hits # {} =>
                 /\ clause_ranges[n][2] \in hits
                 /\ \A i \in hits : clause_ranges[n][2] <= i)

\* C14's case: a trigger line lies between two headings and the first range
\* runs over it to the second heading
C14_Witness ==
  /\ Ranged
  /\ Len(headings) >= 2
  /\ clause_ranges[1][2] = headings[2][1]
  /\ \E i \in TriggersAfter(headings[1][1]) : i < headings[2][1]

\* every character of the line is white space (the empty line included)
WhiteSpaceOnly(line) == \A c \in 1..Len(line) : line[c] \in SpaceChars

\* C15: the empty-body fallback never changes the result.  Whenever the
\* right-trimmed, joined and trimmed body is empty, the raw body lines joined
\* and trimmed are empty too; the content of every clause is the primary
\* computation; and it is empty exactly when the range has no body line or
\* every body line is white space only.
C15_FallbackChangesNothing ==
  Returned =>
    \A k \in 1..Len(clauses) :
      LET r           == clause_ranges[k]
          block_lines == Slice(lines, r[1], r[2])
          primary     == PrimaryContent(ContentLines(block_lines))
      IN  /\ (primary = <<>> /\ Len(block_lines) > 1) =>
               /\ FallbackContent(block_lines) = <<>>
               /\ strip(JoinNL(BodyLines(lines, r))) = <<>>
          /\ clauses[k].clause_content = primary
          /\ clauses[k].clause_content = <<>>
               <=> \A j \in BodyIndices(r) : WhiteSpaceOnly(At(lines, j))

\* C15's case: the fallback is taken over a body line of blanks and tabs
C15_Witness ==
  /\ Returned
  /\ \E k \in 1..Len(clauses) :
       /\ \E j \in BodyIndices(clause_ranges[k]) :
            At(lines, j) # <<>> /\ WhiteSpaceOnly(At(lines, j))
       /\ PrimaryContent(BodyLines(lines, clause_ranges[k])) = <<>>
       /\ clauses[k].clause_content = <<>>

====
